---- MODULE Spec2Model ----
(***************************************************************************)
(* Flocc Studio: the model compiler (src/lib/flocc/compiler.ts), the       *)
(* main-thread SimulationEngine (src/lib/flocc/SimulationEngine.ts), and   *)
(* initializeSimulation of src/lib/flocc/useSimulation.ts with the model   *)
(* the model store holds.                                                  *)
(*                                                                         *)
(* Positions live on an integer grid and angles on the four axis           *)
(* directions, so that cos/sin are -1, 0 or 1.  The seeded generator of    *)
(* the flocc library is a linear congruential generator of reduced width.  *)
(***************************************************************************)
EXTENDS Integers, Naturals, Sequences, FiniteSets, TLC

\* ------------------------------------------------------------------------
\* Bounds of the model
\* ------------------------------------------------------------------------
MaxTick == 3
MaxSpeed == 2
MaxEdits == 1

\* ------------------------------------------------------------------------
\* Program constants
\* ------------------------------------------------------------------------
SEED == 12345
RngMod == 16
RngMul == 5
RngInc == 3
EnvWidth == 4
EnvHeight == 4
DefaultSpeed == 2
DefaultProbability == 1
DefaultDistance == 1
DefaultThreshold == 0
DefaultValue == 0
DefaultAmount == 1
InitialTicksPerFrame == 1

\* ------------------------------------------------------------------------
\* JavaScript values that reach the compiled behaviors
\* ------------------------------------------------------------------------
Num(n) == [k |-> "num", n |-> n, s |-> ""]
Null == [k |-> "null", n |-> 0, s |-> ""]
Undefined == [k |-> "undefined", n |-> 0, s |-> ""]
Ref(name) == [k |-> "ref", n |-> 0, s |-> name]

\* value ?? fallback
Coalesce(v, fallback) == IF v.k \in {"null", "undefined"} THEN fallback ELSE v

\* Number(v) for the values an arithmetic expression can meet here:
\* null is 0; the other non-numbers do not occur where this is used.
ToInt(v) == IF v.k = "num" THEN v.n ELSE 0

\* a % b of JavaScript: the sign of the result is the sign of a
JsRem(a, b) == IF a >= 0 THEN a % b ELSE 0 - ((0 - a) % b)

\* ((n % size) + size) % size
Wrap(n, size) == JsRem(JsRem(n, size) + size, size)

\* ------------------------------------------------------------------------
\* The flocc pseudo-random generator (utils.seed / utils.random)
\* ------------------------------------------------------------------------
Unseeded == 0 - 1
RngNext(s) == (RngMul * s + RngInc) % RngMod
Seeded(seed) == seed % RngMod
\* utils.random(0, hi, true) on generator output r, floored to the grid
Scale(r, hi) == (r * hi) \div RngMod
\* utils.random(0, 2 * PI, true) as one of four axis directions
Cos(r) == CASE Scale(r, 4) = 0 -> 1 [] Scale(r, 4) = 2 -> 0 - 1 [] OTHER -> 0
Sin(r) == CASE Scale(r, 4) = 1 -> 1 [] Scale(r, 4) = 3 -> 0 - 1 [] OTHER -> 0
\* utils.random(0, 1, true) < probability, probability in percent;
\* a probability that is not a number (a "$name" string) compares false
RandomBelow(r, p) == IF p.k = "num" THEN r * 100 < p.n * RngMod ELSE FALSE

\* ------------------------------------------------------------------------
\* StudioModel values
\* ------------------------------------------------------------------------
ParamNames == {"rate"}
\* the custom properties agent types declare
PropNames == {"energy", "fed"}
NoTarget == ""
\* a parameter that names a property, a condition or an action, left out
NoName == ""
NoParams ==
  [speed |-> Undefined, probability |-> Undefined, distance |-> Undefined,
   target |-> NoTarget,
   property |-> NoName, condition |-> NoName, threshold |-> Undefined,
   action |-> NoName, value |-> Undefined,
   setProperty |-> NoName, setValue |-> Undefined,
   incrementProperty |-> NoName, incrementAmount |-> Undefined]
RandomWalk(speed) ==
  [type |-> "random-walk", enabled |-> TRUE, params |-> [NoParams EXCEPT !.speed = speed]]
Die(probability) ==
  [type |-> "die", enabled |-> TRUE, params |-> [NoParams EXCEPT !.probability = probability]]
Reproduce(probability, distance) ==
  [type |-> "reproduce", enabled |-> TRUE,
   params |-> [NoParams EXCEPT !.probability = probability, !.distance = distance]]
MoveToward(target, speed) ==
  [type |-> "move-toward", enabled |-> TRUE,
   params |-> [NoParams EXCEPT !.target = target, !.speed = speed]]
MoveAway(target, speed) ==
  [type |-> "move-away", enabled |-> TRUE,
   params |-> [NoParams EXCEPT !.target = target, !.speed = speed]]
MoveForward(speed) ==
  [type |-> "move-forward", enabled |-> TRUE, params |-> [NoParams EXCEPT !.speed = speed]]
Bounce == [type |-> "bounce", enabled |-> TRUE, params |-> NoParams]
\* on-property as the behavior editor stores it: the tested property, the
\* condition, the threshold, the action, and for the action set-property
\* the property to write and its value
OnProperty(property, condition, threshold, action, setProperty, setValue) ==
  [type |-> "on-property", enabled |-> TRUE,
   params |-> [NoParams EXCEPT !.property = property, !.condition = condition,
                               !.threshold = threshold, !.action = action,
                               !.setProperty = setProperty, !.setValue = setValue]]
\* a behavior whose type is none of those compileBehavior knows
Teleport == [type |-> "teleport", enabled |-> TRUE, params |-> NoParams]
AgentTypeOf(id, behaviors, hasProperties) ==
  [id |-> id, behaviors |-> behaviors, hasProperties |-> hasProperties,
   properties |-> <<>>]
\* an agent type that declares custom properties
Property(name, defaultValue) == [name |-> name, defaultValue |-> defaultValue]
AgentTypeWith(id, behaviors, properties) ==
  [id |-> id, behaviors |-> behaviors, hasProperties |-> TRUE,
   properties |-> properties]
Pop(typeId, count) == [agentTypeId |-> typeId, count |-> count]
Param(name, value) == [name |-> name, value |-> value]
StudioModel(name, types, pops, params) ==
  [name |-> name, agentTypes |-> types, populations |-> pops, parameters |-> params,
   width |-> EnvWidth, height |-> EnvHeight, wraparound |-> TRUE]

\* random walkers whose speed is the parameter "rate"
ModelWalk ==
  StudioModel("walk", <<AgentTypeOf("a", <<RandomWalk(Ref("rate"))>>, TRUE)>>,
              <<Pop("a", 2)>>, <<Param("rate", 1)>>)
\* agents that die with the probability (in percent) held by "rate";
\* its second population has a negative count typed into the editor
ModelDie ==
  StudioModel("die", <<AgentTypeOf("a", <<Die(Ref("rate"))>>, TRUE)>>,
              <<Pop("a", 2), Pop("a", 0 - 1)>>, <<Param("rate", 100)>>)
\* agents that reproduce every second tick on average
ModelReproduce ==
  StudioModel("reproduce",
              <<AgentTypeOf("a", <<Reproduce(Num(50), Num(2)), RandomWalk(Num(1))>>, TRUE)>>,
              <<Pop("a", 1)>>, <<>>)
\* a population and a target that name no agent type of the model, a speed
\* that names no parameter of the model, and a behavior of a type the
\* compiler lacks
ModelDangling ==
  StudioModel("dangling",
              <<AgentTypeOf("a", <<RandomWalk(Ref("rate")), Teleport,
                                   MoveToward("gone", Num(1))>>, TRUE)>>,
              <<Pop("gone", 2), Pop("a", 1)>>, <<>>)
\* an agent type stored without its properties array
ModelBroken ==
  StudioModel("broken",
              <<AgentTypeOf("a", <<RandomWalk(Num(1)), MoveAway("b", Num(1))>>, TRUE),
                AgentTypeOf("b", <<>>, FALSE)>>,
              <<Pop("a", 1), Pop("b", 1)>>, <<>>)
\* an agent that flees, faster than the world is wide, from one that follows it
ModelFlee ==
  StudioModel("flee",
              <<AgentTypeOf("a", <<MoveAway("b", Num(5))>>, TRUE),
                AgentTypeOf("b", <<MoveToward("a", Num(1))>>, TRUE)>>,
              <<Pop("a", 1), Pop("b", 1)>>, <<>>)
\* agents that die for certain and then walk, and agents that reproduce
\* for certain
ModelCull ==
  StudioModel("cull",
              <<AgentTypeOf("a", <<Die(Num(100)), RandomWalk(Num(1))>>, TRUE),
                AgentTypeOf("b", <<Reproduce(Num(100), Num(1))>>, TRUE)>>,
              <<Pop("a", 2), Pop("b", 1)>>, <<>>)
\* agents that move forward and bounce off the edges of a world that wraps
ModelBounce ==
  StudioModel("bounce",
              <<AgentTypeOf("a", <<MoveForward(Num(2)), Bounce>>, TRUE)>>,
              <<Pop("a", 2)>>, <<>>)
\* agents that are marked as fed when their energy is used up
ModelHunger ==
  StudioModel("hunger",
              <<AgentTypeWith("a",
                              <<OnProperty("energy", "lte", Num(0), "set-property",
                                           "fed", Num(1))>>,
                              <<Property("energy", Num(0)), Property("fed", Num(0))>>)>>,
              <<Pop("a", 1)>>, <<>>)
\* agents whose offspring is placed up to two world widths away, and
\* agents that follow them
StrayDistance == 8
ModelStray ==
  StudioModel("stray",
              <<AgentTypeOf("a", <<Reproduce(Num(50), Num(StrayDistance))>>, TRUE),
                AgentTypeOf("b", <<MoveToward("a", Num(1))>>, TRUE)>>,
              <<Pop("a", 1), Pop("b", 1)>>, <<>>)
EmptyModel == StudioModel("none", <<>>, <<>>, <<>>)
\* the models a session reaches that starts with the empty model of a new
\* document, and those one reaches that starts with a saved model
Models ==
  {ModelWalk, ModelDie, ModelReproduce, ModelDangling, ModelBroken, ModelFlee, ModelCull,
   ModelBounce, ModelHunger, ModelStray}
\* what the model store can hold
StoreModels == Models \cup {EmptyModel}
\* the model an edit of the store puts in the place of m
EditedModel(m) ==
  CASE m = EmptyModel -> ModelBroken
    [] m = ModelBroken -> ModelWalk
    [] m = ModelWalk -> ModelDie
    [] m = ModelDie -> ModelReproduce
    [] m = ModelReproduce -> ModelCull
    [] m = ModelCull -> ModelFlee
    [] m = ModelFlee -> ModelDangling
    [] m = ModelDangling -> EmptyModel
    [] m = ModelBounce -> ModelHunger
    [] m = ModelHunger -> ModelStray
    [] m = ModelStray -> ModelBounce
ParamValues == {0, 2}

\* ------------------------------------------------------------------------
\* compiler.ts: compileModel, compileAgentTickFunction, compileBehavior
\* ------------------------------------------------------------------------
NoId == 0 - 1

\* the cases of the switch in compileBehavior
BehaviorTypes ==
  {"random-walk", "move-forward", "move-toward", "move-away", "separate", "align",
   "cohere", "wiggle", "bounce", "on-collision", "on-property", "increment-property",
   "die", "reproduce"}

\* compileBehavior returns null: the default case of the switch, and
\* if (!targetTypeId) return null
CompilesToNull(b) ==
  \/ b.type \notin BehaviorTypes
  \/ b.type \in {"move-toward", "move-away", "on-collision"} /\ b.params.target = NoTarget
  \/ b.type \in {"on-property", "increment-property"} /\ b.params.property = NoName

\* model.agentTypes as the reproduce step uses it: the names of the custom
\* properties each agent type declares
DeclaredProperties(m) ==
  [i \in 1..Len(m.agentTypes) |->
     [id |-> m.agentTypes[i].id,
      names |-> {m.agentTypes[i].properties[j].name :
                   j \in 1..Len(m.agentTypes[i].properties)}]]

\* One compiled step: the closure returned by compileBehavior.  It captures
\* params, the environment configuration of the model and, for reproduce,
\* the offset length drawn from utils.random while compiling and the model's
\* agent types.
CompileBehavior(b, m, r) ==
  [type |-> b.type, params |-> b.params,
   dist |-> IF b.type = "reproduce"
            THEN Scale(r, ToInt(Coalesce(b.params.distance, Num(DefaultDistance))))
            ELSE 0,
   declared |-> IF b.type = "reproduce" THEN DeclaredProperties(m) ELSE <<>>,
   width |-> m.width, height |-> m.height, wraparound |-> m.wraparound]

\* The number of utils.random calls made while compiling a behavior list
RECURSIVE CompileDraws(_)
CompileDraws(bs) ==
  IF bs = <<>> THEN 0
  ELSE (IF Head(bs).enabled /\ Head(bs).type = "reproduce" THEN 1 ELSE 0)
       + CompileDraws(Tail(bs))

\* The tick function of one agent type: the steps of its enabled behaviors
\* in declaration order; rs are the generator outputs consumed on the way.
RECURSIVE CompileAgentTickFunction(_, _, _)
CompileAgentTickFunction(bs, m, rs) ==
  IF bs = <<>> THEN <<>>
  ELSE LET b == Head(bs) IN
       IF ~b.enabled \/ CompilesToNull(b) THEN CompileAgentTickFunction(Tail(bs), m, rs)
       ELSE IF b.type = "reproduce"
            THEN <<CompileBehavior(b, m, Head(rs))>>
                 \o CompileAgentTickFunction(Tail(bs), m, Tail(rs))
            ELSE <<CompileBehavior(b, m, 0)>>
                 \o CompileAgentTickFunction(Tail(bs), m, rs)

RECURSIVE ModelDraws(_)
ModelDraws(types) ==
  IF types = <<>> THEN 0
  ELSE CompileDraws(Head(types).behaviors) + ModelDraws(Tail(types))

RECURSIVE CompileTickFunctions(_, _, _)
CompileTickFunctions(types, m, rs) ==
  IF types = <<>> THEN <<>>
  ELSE LET n == CompileDraws(Head(types).behaviors) IN
       <<CompileAgentTickFunction(Head(types).behaviors, m, SubSeq(rs, 1, n))>>
       \o CompileTickFunctions(Tail(types), m, SubSeq(rs, n + 1, Len(rs)))

\* compileModel: the setup closure holds the model and the tick functions
\* (tickFunctions[i] belongs to model.agentTypes[i])
CompileModel(m, rs) ==
  [set |-> TRUE, model |-> m, tickFunctions |-> CompileTickFunctions(m.agentTypes, m, rs)]

NoSetup == [set |-> FALSE, model |-> EmptyModel, tickFunctions |-> <<>>]

\* The generator outputs of n successive utils.random calls from state s
RECURSIVE RngOutputs(_, _)
RngOutputs(s, n) ==
  IF n = 0 THEN <<>> ELSE <<RngNext(s)>> \o RngOutputs(RngNext(s), n - 1)

\* What n calls of utils.random can return: before utils.seed was ever
\* called they are Math.random values, afterwards the generator's sequence
PossibleDraws(s, n) ==
  IF s = Unseeded THEN [1..n -> 0..(RngMod - 1)] ELSE {RngOutputs(s, n)}

\* find(...) ?? model.agentTypes[0]
FindAgentTypeOrFirst(m, id) ==
  IF \E i \in 1..Len(m.agentTypes) : m.agentTypes[i].id = id
  THEN CHOOSE i \in 1..Len(m.agentTypes) : m.agentTypes[i].id = id
  ELSE IF Len(m.agentTypes) > 0 THEN 1 ELSE 0

\* model.agentTypes.find(t => t.id === id): its index, 0 when there is none
FindAgentType(m, id) ==
  IF \E i \in 1..Len(m.agentTypes) : m.agentTypes[i].id = id
  THEN CHOOSE i \in 1..Len(m.agentTypes) :
         /\ m.agentTypes[i].id = id
         /\ \A j \in 1..(i - 1) : m.agentTypes[j].id # id
  ELSE 0

\* for (const prop of agentType.properties) agent.set(prop.name, prop.defaultValue)
RECURSIVE InitialProperties(_, _)
InitialProperties(properties, props) ==
  IF properties = <<>> THEN props
  ELSE InitialProperties(Tail(properties),
                         [props EXCEPT ![Head(properties).name] = Head(properties).defaultValue])

\* hasMoveForward || hasFlocking
HasVelocity(agentType) ==
  \E j \in 1..Len(agentType.behaviors) :
    /\ agentType.behaviors[j].enabled
    /\ agentType.behaviors[j].type \in {"move-forward", "separate", "align", "cohere"}

\* the speed of the initial velocity: the speed of the first move-forward
\* behavior ?? 2, a "$name" read from the environment ?? 2
InitialSpeed(agentType, data) ==
  LET bs == agentType.behaviors
      found == {j \in 1..Len(bs) : bs[j].type = "move-forward"}
      speedParam ==
        IF found = {} THEN Num(DefaultSpeed)
        ELSE Coalesce(bs[CHOOSE j \in found : \A i \in found : j <= i].params.speed,
                      Num(DefaultSpeed))
  IN IF speedParam.k = "ref"
     THEN Coalesce(data[speedParam.s], Num(DefaultSpeed))
     ELSE speedParam

\* The inner loop of setup: count agents of one agent type.  st holds the
\* agent array, the generator, the environment's data and whether it threw.
RECURSIVE SetupAgents(_, _, _, _)
SetupAgents(cm, ti, count, st) ==
  IF count <= 0 \/ st.threw THEN st
  ELSE LET r1 == RngNext(st.rng)
           r2 == RngNext(r1)
           agentType == cm.model.agentTypes[ti]
           moving == HasVelocity(agentType)
           r3 == IF moving THEN RngNext(r2) ELSE r2
           speed == ToInt(InitialSpeed(agentType, st.data))
           agent == [typeId |-> agentType.id,
                     x |-> Scale(r1, cm.model.width - 1),
                     y |-> Scale(r2, cm.model.height - 1),
                     vx |-> IF moving THEN Num(Cos(r3) * speed) ELSE Null,
                     vy |-> IF moving THEN Num(Sin(r3) * speed) ELSE Null,
                     props |-> InitialProperties(agentType.properties, [p \in PropNames |-> Null]),
                     id |-> NoId, old |-> FALSE,
                     tick |-> cm.tickFunctions[ti]]
       IN IF ~agentType.hasProperties
          THEN [st EXCEPT !.rng = r2, !.threw = TRUE]
          ELSE SetupAgents(cm, ti, count - 1,
                           [st EXCEPT !.rng = r3, !.agents = Append(st.agents, agent)])

RECURSIVE SetupPopulations(_, _, _)
SetupPopulations(cm, pops, st) ==
  IF pops = <<>> \/ st.threw THEN st
  ELSE LET ti == FindAgentType(cm.model, Head(pops).agentTypeId) IN
       IF ti = 0 THEN SetupPopulations(cm, Tail(pops), st)
       ELSE SetupPopulations(cm, Tail(pops),
                             SetupAgents(cm, ti, Head(pops).count, st))

\* setup(env): seeds the generator, then adds the agents to env, whose
\* agents and data are given
Setup(cm, agents, data) ==
  SetupPopulations(cm, cm.model.populations,
                   [agents |-> agents, rng |-> Seeded(SEED), threw |-> FALSE,
                    data |-> data])

\* resolveParam(value, agent, fallback); attached is agent.environment != null
ResolveParam(value, data, attached, fallback) ==
  IF value.k = "ref"
  THEN IF attached THEN data[value.s] ELSE fallback
  ELSE Coalesce(value, fallback)


\* ------------------------------------------------------------------------
\* One environment tick: the compiled steps, then flocc's Environment.tick
\* ------------------------------------------------------------------------
RemoveAt(seq, k) == SubSeq(seq, 1, k - 1) \o SubSeq(seq, k + 1, Len(seq))

Abs(n) == IF n < 0 THEN 0 - n ELSE n
Sign(n) == IF n > 0 THEN 1 ELSE IF n < 0 THEN 0 - 1 ELSE 0

\* What the steps of one Environment.tick work on: the agent array, the
\* generator, whether the KDTree helper is installed, whether a step threw,
\* and how many steps ran on an agent that had been removed
EnvState(agents, r, kdtree) ==
  [agents |-> agents, rng |-> r, kdtree |-> kdtree, threw |-> FALSE, late |-> 0]

\* The step compiled for random-walk, applied to the agent at index k
RandomWalkStep(fn, data, k, attached, st) ==
  LET speed == ResolveParam(fn.params.speed, data, attached, Num(DefaultSpeed))
      r == RngNext(st.rng)
      a == st.agents[k]
      nx == a.x + Cos(r) * ToInt(speed)
      ny == a.y + Sin(r) * ToInt(speed)
      wx == IF fn.wraparound THEN Wrap(nx, fn.width) ELSE nx
      wy == IF fn.wraparound THEN Wrap(ny, fn.height) ELSE ny
  IN [st EXCEPT !.rng = r,
                !.agents = IF attached
                           THEN [st.agents EXCEPT ![k] = [a EXCEPT !.x = wx, !.y = wy]]
                           ELSE st.agents]

\* getDirection on one axis: the difference, by the shorter way round when
\* the world wraps
AxisDirection(from, to, size, wraparound) ==
  LET d == to - from IN
  IF wraparound /\ 2 * Abs(d) > size
  THEN (IF d > 0 THEN d - size ELSE d + size)
  ELSE d

GetDirection(x1, y1, x2, y2, width, height, wraparound) ==
  <<AxisDirection(x1, x2, width, wraparound), AxisDirection(y1, y2, height, wraparound)>>

\* d / Math.sqrt(d * d + other * other) rounded to the grid: exact when
\* other is 0
UnitComponent(d, other) == IF d # 0 /\ 3 * d * d >= other * other THEN Sign(d) ELSE 0

\* findNearest: env.helpers.kdtree.nearestNeighbor(agent, a => a.get('typeId')
\* === typeId), as the index of the agent found, 0 for null; of agents
\* equally near, the first of the array
FindNearest(agents, k, typeId) ==
  LET cands == {i \in 1..Len(agents) : i # k /\ agents[i].typeId = typeId}
      d2(i) == (agents[i].x - agents[k].x) * (agents[i].x - agents[k].x)
               + (agents[i].y - agents[k].y) * (agents[i].y - agents[k].y)
  IN IF cands = {} THEN 0
     ELSE CHOOSE i \in cands :
            \A j \in cands : d2(i) < d2(j) \/ (d2(i) = d2(j) /\ i <= j)

\* flocc's Agent.set of x or y in an Environment created with torus: a value
\* above the size or below 0 is moved by one size
TorusSet(v, size, torus) ==
  IF ~torus THEN v
  ELSE IF v > size THEN v - size
  ELSE IF v < 0 THEN v + size
  ELSE v

\* The steps compiled for move-toward and move-away, applied to the attached
\* agent at index k.  Without the KDTree helper findNearest throws.
MoveStep(fn, k, st) ==
  LET a == st.agents[k]
      speed == ToInt(Coalesce(fn.params.speed, Num(DefaultSpeed)))
      t == FindNearest(st.agents, k, fn.params.target)
      d == GetDirection(a.x, a.y, st.agents[t].x, st.agents[t].y,
                        fn.width, fn.height, fn.wraparound)
      way == IF fn.type = "move-toward" THEN 1 ELSE 0 - 1
      nx == a.x + way * UnitComponent(d[1], d[2]) * speed
      ny == a.y + way * UnitComponent(d[2], d[1]) * speed
  IN IF ~st.kdtree THEN [st EXCEPT !.threw = TRUE]
     ELSE IF t = 0 THEN st
     ELSE IF d = <<0, 0>> THEN st
     ELSE [st EXCEPT !.agents[k] =
             [a EXCEPT !.x = TorusSet(nx, fn.width, fn.wraparound),
                       !.y = TorusSet(ny, fn.height, fn.wraparound)]]

\* The step compiled for die: probability is params.probability as it
\* stands in the model, never resolved against the environment
DieFires(fn, r) ==
  RandomBelow(r, Coalesce(fn.params.probability, Num(DefaultProbability)))

\* The step compiled for reproduce, applied to the (attached) agent at k
ReproduceStep(fn, k, st) ==
  LET r == RngNext(st.rng)
      fires == RandomBelow(r, Coalesce(fn.params.probability, Num(DefaultProbability)))
      r2 == RngNext(r)
      a == st.agents[k]
      found == {i \in 1..Len(fn.declared) : fn.declared[i].id = a.typeId}
      names == IF found = {} THEN {}
               ELSE fn.declared[CHOOSE i \in found : \A j \in found : i <= j].names
      child == [typeId |-> a.typeId,
                x |-> a.x + fn.dist * Cos(r2),
                y |-> a.y + fn.dist * Sin(r2),
                vx |-> a.vx, vy |-> a.vy,
                props |-> [p \in PropNames |-> IF p \in names THEN a.props[p] ELSE Null],
                id |-> NoId, old |-> FALSE, tick |-> a.tick]
  IN IF fires
     THEN [st EXCEPT !.rng = r2, !.agents = Append(st.agents, child)]
     ELSE [st EXCEPT !.rng = r]

\* The step compiled for move-forward, applied to the agent a: the velocity
\* is scaled to the speed, added to the position, and the position wrapped
\* when the model's wraparound flag is set
MoveForwardStep(fn, data, attached, a) ==
  LET speed == ToInt(ResolveParam(fn.params.speed, data, attached, Num(DefaultSpeed)))
      vx0 == ToInt(Coalesce(a.vx, Num(0)))
      vy0 == ToInt(Coalesce(a.vy, Num(0)))
      moving == vx0 # 0 \/ vy0 # 0
      vx == IF moving THEN UnitComponent(vx0, vy0) * speed ELSE vx0
      vy == IF moving THEN UnitComponent(vy0, vx0) * speed ELSE vy0
      nx == a.x + vx
      ny == a.y + vy
  IN [a EXCEPT !.vx = IF moving THEN Num(vx) ELSE a.vx,
               !.vy = IF moving THEN Num(vy) ELSE a.vy,
               !.x = IF fn.wraparound THEN Wrap(nx, fn.width) ELSE nx,
               !.y = IF fn.wraparound THEN Wrap(ny, fn.height) ELSE ny]

\* Math.max(0, Math.min(size - 1, v))
Clamp(v, size) == IF v < 0 THEN 0 ELSE IF v > size - 1 THEN size - 1 ELSE v

\* The step compiled for bounce, applied to the agent a
BounceStep(fn, a) ==
  LET vx == ToInt(Coalesce(a.vx, Num(0)))
      vy == ToInt(Coalesce(a.vy, Num(0)))
      offX == a.x < 0 \/ a.x >= fn.width
      offY == a.y < 0 \/ a.y >= fn.height
  IN [a EXCEPT !.vx = IF offX THEN Num(0 - vx) ELSE a.vx,
               !.x = IF offX THEN Clamp(a.x, fn.width) ELSE a.x,
               !.vy = IF offY THEN Num(0 - vy) ELSE a.vy,
               !.y = IF offY THEN Clamp(a.y, fn.height) ELSE a.y]

\* the switch of the on-property step over its condition
ConditionMet(condition, value, threshold) ==
  CASE condition = "eq" -> value = threshold
    [] condition = "neq" -> value # threshold
    [] condition = "lt" -> value < threshold
    [] condition = "lte" -> value <= threshold
    [] condition = "gt" -> value > threshold
    [] condition = "gte" -> value >= threshold
    [] OTHER -> FALSE

\* the on-property step executes its action on the agent a
OnPropertyFires(fn, a) ==
  LET value == a.props[fn.params.property]
      condition == IF fn.params.condition = NoName THEN "lte" ELSE fn.params.condition
      threshold == ToInt(Coalesce(fn.params.threshold, Num(DefaultThreshold)))
  IN /\ value.k = "num"
     /\ ConditionMet(condition, value.n, threshold)

\* the action an event behavior executes: params.action ?? its default
ActionOf(fn) ==
  IF fn.params.action # NoName THEN fn.params.action
  ELSE IF fn.type = "on-collision" THEN "remove-target" ELSE "remove-self"

\* executeAction for the actions that write a property of the agent a
\* itself: set-property and increment-property
ExecuteAction(action, params, a) ==
  CASE action = "set-property" ->
         \* const propName = params.property ?? params.setProperty
         LET propName == IF params.property # NoName THEN params.property
                         ELSE params.setProperty
             value == Coalesce(params.value, Coalesce(params.setValue, Num(DefaultValue)))
         IN IF propName # NoName THEN [a EXCEPT !.props[propName] = value] ELSE a
    [] action = "increment-property" ->
         LET propName == params.incrementProperty
             amount == ToInt(Coalesce(params.incrementAmount, Num(DefaultAmount)))
         IN IF propName # NoName
            THEN [a EXCEPT !.props[propName] =
                    Num(ToInt(Coalesce(a.props[propName], Num(0))) + amount)]
            ELSE a
    [] OTHER -> a

\* The combined tick function: every step runs, also after the agent was
\* removed, until one throws; attached is agent.environment != null.  When
\* it is false the agent is no longer in st.agents; the steps that return
\* at "if (!env) return" do nothing then, the others run (st.late counts them).
RECURSIVE RunSteps(_, _, _, _, _)
RunSteps(fns, data, k, attached, st) ==
  IF fns = <<>> \/ st.threw THEN st
  ELSE LET fn == Head(fns) IN
       CASE fn.type = "random-walk" ->
              IF attached
              THEN RunSteps(Tail(fns), data, k, attached,
                            RandomWalkStep(fn, data, k, attached, st))
              ELSE RunSteps(Tail(fns), data, k, attached,
                            [st EXCEPT !.rng = RngNext(st.rng), !.late = st.late + 1])
         [] fn.type = "die" ->
              LET r == RngNext(st.rng) IN
              IF DieFires(fn, r) /\ attached
              THEN RunSteps(Tail(fns), data, k, FALSE,
                            [st EXCEPT !.rng = r, !.agents = RemoveAt(st.agents, k)])
              ELSE RunSteps(Tail(fns), data, k, attached,
                            [st EXCEPT !.rng = r,
                                       !.late = IF attached THEN st.late ELSE st.late + 1])
         [] fn.type = "reproduce" ->
              IF attached
              THEN RunSteps(Tail(fns), data, k, attached, ReproduceStep(fn, k, st))
              ELSE RunSteps(Tail(fns), data, k, attached, st)
         [] fn.type \in {"move-toward", "move-away"} ->
              IF attached
              THEN RunSteps(Tail(fns), data, k, attached, MoveStep(fn, k, st))
              ELSE RunSteps(Tail(fns), data, k, attached, st)
         [] fn.type \in {"move-forward", "bounce"} ->
              IF attached
              THEN RunSteps(Tail(fns), data, k, attached,
                            [st EXCEPT !.agents[k] =
                               IF fn.type = "move-forward"
                               THEN MoveForwardStep(fn, data, attached, st.agents[k])
                               ELSE BounceStep(fn, st.agents[k])])
              ELSE RunSteps(Tail(fns), data, k, attached,
                            [st EXCEPT !.late = st.late + 1])
         [] fn.type = "on-property" ->
              IF attached /\ OnPropertyFires(fn, st.agents[k])
              THEN IF ActionOf(fn) = "remove-self"
                   THEN RunSteps(Tail(fns), data, k, FALSE,
                                 [st EXCEPT !.agents = RemoveAt(st.agents, k)])
                   ELSE RunSteps(Tail(fns), data, k, attached,
                                 [st EXCEPT !.agents[k] =
                                    ExecuteAction(ActionOf(fn), fn.params, st.agents[k])])
              ELSE RunSteps(Tail(fns), data, k, attached, st)
         \* the models hold no other behavior
         [] OTHER -> RunSteps(Tail(fns), data, k, attached, st)

\* Environment.tick of flocc: this.agents.forEach over the live array.
\* forEach visits indices below the length it saw at the start and skips
\* an index the array no longer has; an exception ends it.
RECURSIVE ForEachAgent(_, _, _, _)
ForEachAgent(data, k, len0, st) ==
  IF k > len0 \/ st.threw THEN st
  ELSE IF k > Len(st.agents) THEN ForEachAgent(data, k + 1, len0, st)
  ELSE ForEachAgent(data, k + 1, len0, RunSteps(st.agents[k].tick, data, k, TRUE, st))

EnvTick(data, st) == ForEachAgent(data, 1, Len(st.agents), st)

\* Give an id to the agents of the array, from index k on, that lack one
\* (all == TRUE: to every agent, as initialize and reset do)
RECURSIVE AssignIds(_, _, _, _)
AssignIds(agents, k, counter, all) ==
  IF k > Len(agents) THEN [agents |-> agents, counter |-> counter]
  ELSE IF all \/ agents[k].id = NoId
       THEN AssignIds([agents EXCEPT ![k].id = counter], k + 1, counter + 1, all)
       ELSE AssignIds(agents, k + 1, counter, all)

\* What tick() works on: the Environment's agents and helper, the generator,
\* this.agentIdCounter and this.tickCount
TickState(agents, r, counter, ticks, kdtree) ==
  [agents |-> agents, rng |-> r, counter |-> counter, tickCount |-> ticks,
   kdtree |-> kdtree, threw |-> FALSE, late |-> 0]

\* tick() without this.tickCount++
EngineTickKeepsCount(data, st) ==
  LET ids == AssignIds(st.agents, 1, st.counter, FALSE)
      t == EnvTick(data, [EnvState(ids.agents, st.rng, st.kdtree) EXCEPT !.late = st.late])
  IN [st EXCEPT !.agents = t.agents, !.rng = t.rng, !.counter = ids.counter,
                !.threw = t.threw, !.late = t.late]

\* SimulationEngine.tick on a live environment; when env.tick() throws,
\* this.tickCount++ is not reached
EngineTick(data, st) ==
  LET ids == AssignIds(st.agents, 1, st.counter, FALSE)
      t == EnvTick(data, [EnvState(ids.agents, st.rng, st.kdtree) EXCEPT !.late = st.late])
  IN [st EXCEPT !.agents = t.agents, !.rng = t.rng, !.counter = ids.counter,
                !.tickCount = IF t.threw THEN st.tickCount ELSE st.tickCount + 1,
                !.threw = t.threw, !.late = t.late]

\* the ticks of one frame: for (i = 0; i < ticksPerFrame; i++) this.tick()
RECURSIVE EngineTicks(_, _, _)
EngineTicks(n, data, st) ==
  IF n <= 0 \/ st.threw THEN st ELSE EngineTicks(n - 1, data, EngineTick(data, st))


\* ------------------------------------------------------------------------
\* State
\* ------------------------------------------------------------------------
VARIABLES
  env,             \* this.env: live (non-null), its agent array, its data, and
                   \* whether the KDTree helper was installed
  renderer,        \* this.renderer !== null
  isRunning,       \* this.isRunning
  tickCount,       \* this.tickCount
  ticksPerFrame,   \* this.ticksPerFrame
  animationId,     \* this.animationId, NoFrame for null
  agentIdCounter,  \* this.agentIdCounter
  setupFn,         \* this.setupFn
  parameters,      \* this.parameters
  pending,         \* animation-frame callbacks the host has yet to run
  rng,             \* state of the generator behind utils.random
  model,           \* useModelStore: the model being edited
  edits,           \* how often it was replaced since initializeSimulation last ran
  status,          \* useSimulationStore: status
  storeTick,       \* useSimulationStore: tick
  agentCount,      \* useSimulationStore: agentCount
  engine,          \* useSimulationStore: engine !== null
  lastOp,          \* the call or callback that ran last
  early,           \* it returned at its guard
  notified,        \* the onTick calls it made: <<tick, agentCount>>
  errored,         \* it called onError
  threw,           \* it raised an exception to its caller
  ticksRun,        \* how many ticks it executed
  lateSteps,       \* how many steps it ran on an agent already removed
  wasRunning,      \* isRunning when it was entered
  pausedSince,     \* pause() has returned and no play() or step() was called since
  lifecycle,       \* "new", or how the last initialize or cleanup ended
  twin,            \* an independent run of the same model, as its initialize left it
  issued,          \* how many ids were handed out since the last initialize, had
                   \* each id been used once: one more than the highest id
  clean            \* the engine's run began from the model's own parameter values
                   \* and no parameter value was changed since

engineVars ==
  <<env, renderer, isRunning, tickCount, ticksPerFrame, animationId,
    agentIdCounter, setupFn, parameters>>
hostVars == <<pending, rng>>
storeVars == <<model, edits>>
simVars == <<status, storeTick, agentCount, engine>>
callVars == <<lastOp, early, notified, errored, threw, ticksRun, lateSteps, wasRunning>>
historyVars == <<pausedSince, lifecycle, twin, issued, clean>>
vars == <<engineVars, hostVars, storeVars, simVars, callVars, historyVars>>

NoFrame == 0 - 1
NoData == [n \in ParamNames |-> Null]
NoEnv == [live |-> FALSE, agents |-> <<>>, data |-> NoData, kdtree |-> FALSE]

\* getAgentCount(): this.env?.getAgents().length ?? 0
GetAgentCount == IF env.live THEN Len(env.agents) ELSE 0

\* requestAnimationFrame returns a handle no callback and no field holds
FreshFrame(held) == CHOOSE f \in 0..(Cardinality(held) + 1) : f \notin held

\* what an agent looks like from outside the engine
Snapshot(agents) ==
  [i \in 1..Len(agents) |->
     [typeId |-> agents[i].typeId, x |-> agents[i].x, y |-> agents[i].y,
      id |-> agents[i].id]]

\* syncParametersToEnv on a live environment
RECURSIVE SyncParametersToEnv(_, _)
SyncParametersToEnv(params, data) ==
  IF params = <<>> THEN data
  ELSE SyncParametersToEnv(Tail(params),
                           [data EXCEPT ![Head(params).name] = Num(Head(params).value)])

\* pause() that drops the handle without cancelling it or stopping the loop
PauseEffectLeavesLoop ==
  [isRunning |-> isRunning, pending |-> pending, animationId |-> NoFrame]

\* pause(): isRunning = false, and a held handle is cancelled and dropped
PauseEffect ==
  [isRunning |-> FALSE,
   pending |-> IF animationId # NoFrame THEN pending \ {animationId} ELSE pending,
   animationId |-> NoFrame]

\* The environment data a run of model m starts from
ModelData(m) == SyncParametersToEnv(m.parameters, NoData)

\* compile, then initialize, in a process of its own: what the setup
\* procedure and the id assignment leave behind (rs: the compile-time draws)
InitializeRun(m, rs) ==
  LET cm == CompileModel(m, rs)
      s == Setup(cm, <<>>, ModelData(m))
      ids == AssignIds(s.agents, 1, 0, TRUE)
  IN [model |-> m, agents |-> ids.agents, rng |-> s.rng, counter |-> ids.counter,
      tickCount |-> 0, kdtree |-> ~s.threw]

NoRun == [model |-> EmptyModel, agents |-> <<>>, rng |-> Unseeded, counter |-> 0,
          tickCount |-> 0, kdtree |-> FALSE]

\* that run after n ticks
RunAfter(run, n) ==
  EngineTicks(n, ModelData(run.model),
              TickState(run.agents, run.rng, run.counter, 0, run.kdtree))

\* issued after a call that leaves this.agentIdCounter at counter
Issued(counter) == IF counter > issued THEN counter ELSE issued

Init ==
  /\ env = NoEnv
  /\ renderer = FALSE
  /\ isRunning = FALSE
  /\ tickCount = 0
  /\ ticksPerFrame = InitialTicksPerFrame
  /\ animationId = NoFrame
  /\ agentIdCounter = 0
  /\ setupFn = NoSetup
  /\ parameters = <<>>
  /\ pending = {}
  /\ rng = Unseeded
  /\ model = EmptyModel
  /\ edits = 0
  /\ status = "idle"
  /\ storeTick = 0
  /\ agentCount = 0
  /\ engine = FALSE
  /\ lastOp = "new"
  /\ early = FALSE
  /\ notified = <<>>
  /\ errored = FALSE
  /\ threw = FALSE
  /\ ticksRun = 0
  /\ lateSteps = 0
  /\ wasRunning = FALSE
  /\ pausedSince = FALSE
  /\ lifecycle = "new"
  /\ twin = NoRun
  /\ issued = 0
  /\ clean = FALSE

\* ------------------------------------------------------------------------
\* SimulationEngine: playback
\* ------------------------------------------------------------------------

\* onTick as initializeSimulation wires it: updateState(tick, agentCount) of
\* the simulation store, for the call the handler made, if it made one
OnTick ==
  /\ storeTick' = IF notified' = <<>> THEN storeTick ELSE notified'[Len(notified')][1]
  /\ agentCount' = IF notified' = <<>> THEN agentCount ELSE notified'[Len(notified')][2]

\* The body of runLoop past its guard: ticksPerFrame ticks, render, onTick,
\* requestAnimationFrame.  pend is the set of callbacks pending on entry.
\* When a tick throws, nothing after it is reached.
RunLoopBody(pend) ==
  LET t == EngineTicks(ticksPerFrame, env.data,
                       TickState(env.agents, rng, agentIdCounter, tickCount, env.kdtree))
      f == FreshFrame(pend \cup {animationId})
  IN /\ tickCount + ticksPerFrame <= MaxTick
     /\ env' = [env EXCEPT !.agents = t.agents]
     /\ rng' = t.rng
     /\ agentIdCounter' = t.counter
     /\ tickCount' = t.tickCount
     /\ ticksRun' = t.tickCount - tickCount
     /\ lateSteps' = t.late
     /\ threw' = t.threw
     /\ notified' = IF t.threw THEN <<>> ELSE <<<<t.tickCount, Len(t.agents)>>>>
     /\ animationId' = IF t.threw THEN animationId ELSE f
     /\ pending' = IF t.threw THEN pend ELSE pend \cup {f}
     /\ issued' = Issued(t.counter)

\* if (!this.env) return;
PlayReturnsEarlyWithoutEnvOnly == ~env.live

\* if (!this.env || this.isRunning) return;
PlayReturnsEarly == ~env.live \/ isRunning

\* if (!this.isRunning || !this.env) return;
RunLoopReturnsEarly == ~isRunning \/ ~env.live

Play ==
  /\ lastOp' = "play"
  /\ wasRunning' = isRunning
  /\ UNCHANGED storeVars
  /\ pausedSince' = FALSE
  /\ UNCHANGED <<lifecycle, twin, clean>>
  /\ errored' = FALSE
  /\ IF PlayReturnsEarly
     THEN /\ early' = TRUE
          /\ threw' = FALSE
          /\ ticksRun' = 0
          /\ lateSteps' = 0
          /\ notified' = <<>>
          /\ UNCHANGED <<engineVars, hostVars, issued>>
     ELSE /\ early' = FALSE
          /\ isRunning' = TRUE
          /\ RunLoopBody(pending)
          /\ UNCHANGED <<renderer, ticksPerFrame, setupFn, parameters>>

\* the host runs a pending animation-frame callback: runLoop
Frame ==
  \E f \in pending :
    /\ lastOp' = "frame"
    /\ wasRunning' = isRunning
    /\ UNCHANGED storeVars
    /\ UNCHANGED <<pausedSince, lifecycle, twin, clean>>
    /\ errored' = FALSE
    /\ IF RunLoopReturnsEarly
       THEN /\ early' = TRUE
            /\ threw' = FALSE
            /\ ticksRun' = 0
            /\ lateSteps' = 0
            /\ notified' = <<>>
            /\ pending' = pending \ {f}
            /\ UNCHANGED <<engineVars, rng, issued>>
       ELSE /\ early' = FALSE
            /\ RunLoopBody(pending \ {f})
            /\ UNCHANGED <<renderer, isRunning, ticksPerFrame, setupFn, parameters>>

Pause ==
  /\ lastOp' = "pause"
  /\ wasRunning' = isRunning
  /\ UNCHANGED storeVars
  /\ pausedSince' = TRUE
  /\ UNCHANGED <<lifecycle, twin, issued, clean>>
  /\ early' = FALSE
  /\ errored' = FALSE
  /\ threw' = FALSE
  /\ ticksRun' = 0
  /\ lateSteps' = 0
  /\ notified' = <<>>
  /\ isRunning' = PauseEffect.isRunning
  /\ pending' = PauseEffect.pending
  /\ animationId' = PauseEffect.animationId
  /\ UNCHANGED <<env, renderer, tickCount, ticksPerFrame, agentIdCounter, setupFn,
                 parameters, rng>>

Step ==
  /\ lastOp' = "step"
  /\ wasRunning' = isRunning
  /\ UNCHANGED storeVars
  /\ pausedSince' = FALSE
  /\ UNCHANGED <<lifecycle, twin, clean>>
  /\ errored' = FALSE
  /\ IF ~env.live
     THEN /\ early' = TRUE
          /\ threw' = FALSE
          /\ ticksRun' = 0
          /\ lateSteps' = 0
          /\ notified' = <<>>
          /\ UNCHANGED <<engineVars, hostVars, issued>>
     ELSE LET t == EngineTick(env.data,
                              TickState(env.agents, rng, agentIdCounter, tickCount,
                                        env.kdtree))
          IN /\ tickCount + 1 <= MaxTick
             /\ early' = FALSE
             /\ isRunning' = PauseEffect.isRunning
             /\ pending' = PauseEffect.pending
             /\ animationId' = PauseEffect.animationId
             /\ env' = [env EXCEPT !.agents = t.agents]
             /\ rng' = t.rng
             /\ agentIdCounter' = t.counter
             /\ tickCount' = t.tickCount
             /\ ticksRun' = t.tickCount - tickCount
             /\ lateSteps' = t.late
             /\ threw' = t.threw
             /\ notified' = IF t.threw THEN <<>> ELSE <<<<t.tickCount, Len(t.agents)>>>>
             /\ issued' = Issued(t.counter)
             /\ UNCHANGED <<renderer, ticksPerFrame, setupFn, parameters>>

\* setSpeed storing its argument as it is
ClampSpeedKeeps(n) == n

\* Math.max(1, ticksPerFrame)
ClampSpeed(n) == IF n > 1 THEN n ELSE 1

SetSpeed ==
  \E n \in 0..MaxSpeed :
    /\ lastOp' = "setSpeed"
    /\ wasRunning' = isRunning
    /\ UNCHANGED storeVars
    /\ UNCHANGED simVars
    /\ UNCHANGED historyVars
    /\ early' = FALSE
    /\ errored' = FALSE
    /\ threw' = FALSE
    /\ ticksRun' = 0
    /\ lateSteps' = 0
    /\ notified' = <<>>
    /\ ticksPerFrame' = ClampSpeed(n)
    /\ UNCHANGED <<env, renderer, isRunning, tickCount, animationId, agentIdCounter,
                   setupFn, parameters, hostVars>>


\* ------------------------------------------------------------------------
\* SimulationEngine: initialize, reset, cleanup, updateParameter
\* ------------------------------------------------------------------------

\* reset(): for (const agent of agents) this.env.removeAgent(agent)
\* the agent objects that exist when reset is entered
ExistingAgents(agents) == [i \in 1..Len(agents) |-> [agents[i] EXCEPT !.old = TRUE]]

\* reset() without the removal loop
ClearAgentsKeepsAll(agents) == agents

RECURSIVE ClearAgents(_)
ClearAgents(agents) == IF agents = <<>> THEN <<>> ELSE ClearAgents(RemoveAt(agents, 1))

\* The states the generator behind utils.random can be in
RngStates == {Unseeded} \cup (0..(RngMod - 1))

\* What compileModel(m) can return when the generator is in state s
CompiledModels ==
  [m \in Models |->
     [s \in RngStates |->
        {CompileModel(m, rs) : rs \in PossibleDraws(s, ModelDraws(m.agentTypes))}]]

\* compileModel(m) with the generator in state s, then setup on an empty
\* Environment and the id assignment of initialize
SetupOutcomes ==
  [m \in Models |->
     [s \in RngStates |->
        {[cm |-> cm, s |-> Setup(cm, <<>>, ModelData(m)),
          ids |-> AssignIds(Setup(cm, <<>>, ModelData(m)).agents, 1, 0, TRUE)] :
           cm \in CompiledModels[m][s]}]]

\* What an independent run of model m can be after its initialize
IndependentRuns ==
  [m \in Models |->
     {InitializeRun(m, rs) : rs \in PossibleDraws(Unseeded, ModelDraws(m.agentTypes))}]

\* if (model.agentTypes.length === 0 || model.populations.length === 0) return;
InitializeReturnsEarly == Len(model.agentTypes) = 0 \/ Len(model.populations) = 0

\* the guard of initializeSimulation tearing the engine down before it returns
ReturnAfterCleanup ==
  [env |-> NoEnv, renderer |-> FALSE, setupFn |-> NoSetup,
   isRunning |-> PauseEffect.isRunning, pending |-> PauseEffect.pending,
   animationId |-> PauseEffect.animationId]

\* return; at the guard of initializeSimulation: the engine is not touched
ReturnAtGuard ==
  [env |-> env, renderer |-> renderer, setupFn |-> setupFn,
   isRunning |-> isRunning, pending |-> pending, animationId |-> animationId]

\* initializeSimulation() of useSimulation: past its guard, compileModel(model)
\* followed by engine.initialize(compiled.setup, ...).
Initialize ==
  IF InitializeReturnsEarly
  THEN /\ lastOp' = "initializeSimulation"
       /\ wasRunning' = isRunning
       /\ early' = TRUE
       /\ errored' = FALSE
       /\ threw' = FALSE
       /\ ticksRun' = 0
       /\ lateSteps' = 0
       /\ notified' = <<>>
       /\ edits' = 0
       /\ env' = ReturnAtGuard.env
       /\ renderer' = ReturnAtGuard.renderer
       /\ setupFn' = ReturnAtGuard.setupFn
       /\ isRunning' = ReturnAtGuard.isRunning
       /\ pending' = ReturnAtGuard.pending
       /\ animationId' = ReturnAtGuard.animationId
       /\ UNCHANGED <<tickCount, ticksPerFrame, agentIdCounter, parameters, rng, model,
                      historyVars>>
  ELSE
  \E o \in SetupOutcomes[model][rng] :
  \E other \in IndependentRuns[model] :
    LET m == model
        cm == o.cm
        s == o.s
        ids == o.ids
        failed == s.threw
    IN /\ lastOp' = "initialize"
       /\ wasRunning' = isRunning
       /\ edits' = 0
       /\ UNCHANGED model
       /\ UNCHANGED pausedSince
       /\ lifecycle' = IF failed THEN "failed" ELSE "initialized"
       /\ twin' = other
       /\ clean' = ~failed
       /\ early' = FALSE
       /\ threw' = FALSE
       /\ ticksRun' = 0
       /\ lateSteps' = 0
       \* this.cleanup()
       /\ isRunning' = PauseEffect.isRunning
       /\ pending' = PauseEffect.pending
       /\ animationId' = PauseEffect.animationId
       \* try { ... }
       /\ setupFn' = cm
       /\ parameters' = m.parameters
       /\ tickCount' = 0
       /\ env' = [live |-> TRUE,
                  agents |-> IF s.threw THEN s.agents ELSE ids.agents,
                  data |-> ModelData(m),
                  kdtree |-> ~s.threw]
       /\ agentIdCounter' = IF s.threw THEN 0 ELSE ids.counter
       /\ issued' = IF s.threw THEN 0 ELSE ids.counter
       /\ rng' = s.rng
       /\ renderer' = ~failed
       /\ notified' = IF failed THEN <<>> ELSE <<<<0, Len(ids.agents)>>>>
       \* catch (error) { this.onError?.(error) }
       /\ errored' = failed
       /\ UNCHANGED ticksPerFrame

\* The editor replaces the model in the model store.  When an engine was
\* created and the parameters array is another one, the effect of
\* useSimulation calls engine.syncParameters(model.parameters).
EditModel ==
  \E m \in {EditedModel(model)} :
    /\ edits < MaxEdits
    /\ edits' = edits + 1
    /\ lastOp' = "editModel"
    /\ wasRunning' = isRunning
    /\ model' = m
    /\ UNCHANGED simVars
    /\ UNCHANGED <<pausedSince, lifecycle, twin, issued>>
    /\ early' = FALSE
    /\ errored' = FALSE
    /\ threw' = FALSE
    /\ ticksRun' = 0
    /\ lateSteps' = 0
    /\ notified' = <<>>
    /\ IF lifecycle = "new" \/ m.parameters = model.parameters
       THEN UNCHANGED <<engineVars, hostVars, clean>>
       ELSE /\ parameters' = m.parameters
            /\ env' = IF env.live
                      THEN [env EXCEPT !.data = SyncParametersToEnv(m.parameters, env.data)]
                      ELSE env
            /\ clean' = (clean /\ env'.data = env.data)
            /\ UNCHANGED <<renderer, isRunning, tickCount, ticksPerFrame, animationId,
                           agentIdCounter, setupFn, hostVars>>

\* reset() running the setup of the model the store holds now
ResetSetupOfStoreModel ==
  IF model \in Models
  THEN CHOOSE cm \in CompiledModels[model][rng] : TRUE
  ELSE [set |-> TRUE, model |-> model, tickFunctions |-> <<>>]

\* this.setupFn(this.env) in reset(): the setup stored by initialize
ResetSetup == setupFn

Reset ==
  /\ lastOp' = "reset"
  /\ wasRunning' = isRunning
  /\ UNCHANGED storeVars
  /\ UNCHANGED <<pausedSince, lifecycle, twin>>
  /\ errored' = FALSE
  /\ ticksRun' = 0
  /\ lateSteps' = 0
  /\ IF ~env.live \/ ~setupFn.set
     THEN /\ early' = TRUE
          /\ threw' = FALSE
          /\ notified' = <<>>
          /\ UNCHANGED <<engineVars, hostVars, issued, clean>>
     ELSE LET data == SyncParametersToEnv(parameters, env.data)
              s == Setup(ResetSetup, ClearAgents(ExistingAgents(env.agents)), data)
              ids == AssignIds(s.agents, 1, 0, TRUE)
          IN /\ early' = FALSE
             /\ isRunning' = PauseEffect.isRunning
             /\ pending' = PauseEffect.pending
             /\ animationId' = PauseEffect.animationId
             /\ tickCount' = 0
             /\ env' = [env EXCEPT !.data = data,
                                   !.agents = IF s.threw THEN s.agents ELSE ids.agents]
             /\ agentIdCounter' = IF s.threw THEN 0 ELSE ids.counter
             /\ issued' = Issued(IF s.threw THEN 0 ELSE ids.counter)
             /\ rng' = s.rng
             /\ threw' = s.threw
             /\ clean' = (~s.threw /\ data = ModelData(setupFn.model))
             /\ notified' = IF s.threw THEN <<>> ELSE <<<<0, Len(ids.agents)>>>>
             /\ UNCHANGED <<renderer, ticksPerFrame, setupFn, parameters>>

\* param.value = value for the parameter of that name in this.parameters
RECURSIVE SetParameterValue(_, _, _)
SetParameterValue(params, name, value) ==
  IF params = <<>> THEN <<>>
  ELSE IF Head(params).name = name
       THEN <<[Head(params) EXCEPT !.value = value]>> \o Tail(params)
       ELSE <<Head(params)>> \o SetParameterValue(Tail(params), name, value)

UpdateParameter ==
  \E name \in ParamNames, value \in ParamValues :
    /\ lastOp' = "updateParameter"
    /\ wasRunning' = isRunning
    /\ UNCHANGED storeVars
    /\ UNCHANGED simVars
    /\ UNCHANGED <<pausedSince, lifecycle, twin, issued>>
    /\ errored' = FALSE
    /\ threw' = FALSE
    /\ ticksRun' = 0
    /\ lateSteps' = 0
    /\ notified' = <<>>
    /\ IF ~env.live
       THEN /\ early' = TRUE
            /\ UNCHANGED <<engineVars, hostVars, clean>>
       ELSE /\ early' = FALSE
            /\ clean' = (clean /\ env.data[name] = Num(value))
            /\ parameters' = SetParameterValue(parameters, name, value)
            /\ env' = [env EXCEPT !.data[name] = Num(value)]
            /\ UNCHANGED <<renderer, isRunning, tickCount, ticksPerFrame, animationId,
                           agentIdCounter, setupFn, hostVars>>

Cleanup ==
  /\ lastOp' = "cleanup"
  /\ wasRunning' = isRunning
  /\ UNCHANGED storeVars
  /\ UNCHANGED <<pausedSince, twin, issued>>
  /\ lifecycle' = "cleaned"
  /\ clean' = FALSE
  /\ early' = FALSE
  /\ errored' = FALSE
  /\ threw' = FALSE
  /\ ticksRun' = 0
  /\ lateSteps' = 0
  /\ notified' = <<>>
  /\ isRunning' = PauseEffect.isRunning
  /\ pending' = PauseEffect.pending
  /\ animationId' = PauseEffect.animationId
  /\ renderer' = FALSE
  /\ env' = NoEnv
  /\ setupFn' = NoSetup
  /\ UNCHANGED <<tickCount, ticksPerFrame, agentIdCounter, parameters, rng>>

\* The engine with its onTick calls recorded in notified: its methods are
\* called on it directly and the simulation store has no part
EngineInitialize == Initialize /\ UNCHANGED simVars
EnginePlay == Play /\ UNCHANGED simVars
EngineFrame == Frame /\ UNCHANGED simVars
EnginePause == Pause /\ UNCHANGED simVars
EngineStep == Step /\ UNCHANGED simVars
EngineReset == Reset /\ UNCHANGED simVars
EngineCleanup == Cleanup /\ UNCHANGED simVars

Next ==
  \/ EditModel
  \/ EngineInitialize
  \/ EnginePlay
  \/ EngineFrame
  \/ EnginePause
  \/ EngineStep
  \/ EngineReset
  \/ SetSpeed
  \/ UpdateParameter
  \/ EngineCleanup

Spec == Init /\ [][Next]_vars

\* The page of a saved model: the model store holds the model loaded from
\* the server when the simulation is mounted
SavedInit ==
  /\ env = NoEnv
  /\ renderer = FALSE
  /\ isRunning = FALSE
  /\ tickCount = 0
  /\ ticksPerFrame = InitialTicksPerFrame
  /\ animationId = NoFrame
  /\ agentIdCounter = 0
  /\ setupFn = NoSetup
  /\ parameters = <<>>
  /\ pending = {}
  /\ rng = Unseeded
  /\ model = ModelBounce
  /\ edits = 0
  /\ status = "idle"
  /\ storeTick = 0
  /\ agentCount = 0
  /\ engine = FALSE
  /\ lastOp = "new"
  /\ early = FALSE
  /\ notified = <<>>
  /\ errored = FALSE
  /\ threw = FALSE
  /\ ticksRun = 0
  /\ lateSteps = 0
  /\ wasRunning = FALSE
  /\ pausedSince = FALSE
  /\ lifecycle = "new"
  /\ twin = NoRun
  /\ issued = 0
  /\ clean = FALSE

\* the visitor of that page reloads the model, lets the simulation be
\* initialized and steps through it
SavedNext ==
  \/ EditModel
  \/ EngineInitialize
  \/ EngineStep

SavedSpec == SavedInit /\ [][SavedNext]_vars

\* ------------------------------------------------------------------------
\* stores/simulation.ts and useSimulation.ts: the engine behind the store
\* ------------------------------------------------------------------------

\* initializeSimulation() with the store: past the guard, setEngine(engine),
\* engine.initialize(...) with onTick wired to updateState, setStatus('idle')
StoreInitialize ==
  /\ Initialize
  /\ IF InitializeReturnsEarly
     THEN UNCHANGED simVars
     ELSE /\ engine' = TRUE
          /\ OnTick
          /\ status' = "idle"

\* an edit of the model while the hook holds its place on the page
StoreEditModel == lifecycle # "cleaned" /\ EditModel

\* play() of the store: engine.play(), then set({ status: 'running' })
\* unless the call threw
StorePlay ==
  /\ engine
  /\ status # "running"
  /\ Play
  /\ OnTick
  /\ status' = IF threw' THEN status ELSE "running"
  /\ UNCHANGED engine

\* pause() of the store: engine.pause(), then set({ status: 'paused' })
StorePause ==
  /\ engine
  /\ status = "running"
  /\ Pause
  /\ OnTick
  /\ status' = "paused"
  /\ UNCHANGED engine

\* step() of the store: engine.step(), then set({ status: 'paused',
\* tick: engine.getTick(), agentCount: engine.getAgentCount() }) unless the
\* call threw
StoreStep ==
  /\ engine
  /\ Step
  /\ status' = IF threw' THEN status ELSE "paused"
  /\ storeTick' = IF threw' THEN storeTick ELSE tickCount'
  /\ agentCount' = IF threw' THEN agentCount ELSE Len(env'.agents)
  /\ UNCHANGED engine

\* reset() of the store: engine.reset(), then set({ status: 'idle', tick: 0,
\* agentCount: engine.getAgentCount() }) unless the call threw
StoreReset ==
  /\ engine
  /\ Reset
  /\ status' = IF threw' THEN status ELSE "idle"
  /\ storeTick' = IF threw' THEN storeTick ELSE 0
  /\ agentCount' = IF threw' THEN agentCount ELSE Len(env'.agents)
  /\ UNCHANGED engine

\* a frame of the engine the store holds: onTick is updateState
StoreFrame == Frame /\ OnTick /\ UNCHANGED <<status, engine>>

\* the cleanup of the hook on unmount: engine.cleanup(), engineRef.current =
\* null, setEngine(null)
Unmount ==
  /\ engine
  /\ Cleanup
  /\ engine' = FALSE
  /\ UNCHANGED <<status, storeTick, agentCount>>

StoreNext ==
  \/ StoreEditModel
  \/ StoreInitialize
  \/ StorePlay
  \/ StoreFrame
  \/ StorePause
  \/ StoreStep
  \/ StoreReset
  \/ Unmount

StoreSpec == Init /\ [][StoreNext]_vars

TypeOK ==
  /\ env.live \in BOOLEAN
  /\ isRunning \in BOOLEAN
  /\ tickCount \in 0..MaxTick
  /\ ticksPerFrame \in 1..MaxSpeed
  /\ Cardinality(pending) <= 2

\* ------------------------------------------------------------------------
\* Properties
\* ------------------------------------------------------------------------
engineState == <<engineVars, hostVars>>

C2_StepAdvancesOneTick ==
  [][(lifecycle = "initialized" /\ env.live /\ lastOp' = "step") =>
        /\ ~isRunning'
        /\ tickCount' = tickCount + 1
        /\ ticksRun' = 1
        /\ notified' = <<<<tickCount + 1, Len(env'.agents)>>>>]_vars

\* step() was called on a running engine
C2_Witness ==
  lastOp = "step" /\ wasRunning /\ ~early /\ tickCount >= 2 /\ ~isRunning

\* C3: play() changes nothing when there is no Environment or the engine is
\* running; otherwise the engine is running afterwards and, when play()
\* returned, exactly one frame callback is scheduled.  No call ever leaves
\* two callbacks scheduled.
C3_PlayStartsOneLoop ==
  [][/\ lastOp' = "play" =>
          IF ~env.live \/ isRunning
          THEN UNCHANGED engineState
          ELSE /\ isRunning'
               /\ ~threw' => (pending' = {animationId'} /\ animationId' # NoFrame)
     /\ Cardinality(pending') <= 1]_vars

\* play() was called while the loop was running
C3_Witness ==
  lastOp = "play" /\ wasRunning /\ early /\ env.live /\ isRunning
  /\ Cardinality(pending) = 1

\* C4: reset() on an initialized engine leaves it not running at tick 0, and
\* every live agent is an object constructed during that call.
C4_ResetReplacesAgents ==
  [][(env.live /\ setupFn.set /\ lastOp' = "reset") =>
        /\ ~isRunning'
        /\ tickCount' = 0
        /\ \A i \in 1..Len(env'.agents) : ~env'.agents[i].old]_vars

\* reset() was called on a running engine that had agents and had run ticks
C4_Witness ==
  lastOp = "reset" /\ wasRunning /\ ~early /\ ~threw /\ Len(env.agents) > 0
  /\ tickCount = 0 /\ ~isRunning

\* sum of count over all populations of the model
RECURSIVE SumCounts(_)
SumCounts(pops) == IF pops = <<>> THEN 0 ELSE Head(pops).count + SumCounts(Tail(pops))

\* sum of count over the populations that name an agent type of the model
\* and have a positive count
RECURSIVE SumCreatable(_, _)
SumCreatable(m, pops) ==
  IF pops = <<>> THEN 0
  ELSE (IF (\E i \in 1..Len(m.agentTypes) : m.agentTypes[i].id = Head(pops).agentTypeId)
           /\ Head(pops).count > 0
        THEN Head(pops).count ELSE 0)
       + SumCreatable(m, Tail(pops))

Resolved(v, data) == IF v.k = "ref" /\ data[v.s].k = "num" THEN data[v.s] ELSE v

WithCurrentValues(agents, data) ==
  [i \in 1..Len(agents) |->
     [agents[i] EXCEPT !.tick =
        [j \in 1..Len(agents[i].tick) |->
           [agents[i].tick[j] EXCEPT
              !.params.speed = Resolved(@, data),
              !.params.probability = Resolved(@, data)]]]]

\* C6: a tick gives a behavior whose parameter is a reference the effect it
\* would have with the number the Parameter Table holds at that moment.
C6_ReferencesResolvedWhenStepRuns ==
  [][(lastOp' = "step" /\ ~early') =>
        Snapshot(env'.agents) =
          Snapshot(EngineTick(env.data,
                              TickState(WithCurrentValues(env.agents, env.data), rng,
                                        agentIdCounter, tickCount, env.kdtree)).agents)]_vars

\* C7: onTick is called once for every tick a call or frame callback
\* executes, and once by a successful initialize and by a completed reset.
C7_OnTickAfterEveryTick ==
  /\ (lastOp \in {"play", "frame", "step"} /\ ~early) => Len(notified) = ticksRun
  /\ (lastOp = "initialize" /\ ~errored) => Len(notified) = 1
  /\ (lastOp = "reset" /\ ~early /\ ~threw) => Len(notified) = 1

\* C8: the engine's agents after N ticks of a run that began, by initialize
\* or by reset, from the model's own parameter values are the agents of an
\* independent run of the same model after N ticks.
C8_RunsAgree ==
  (clean /\ env.live) =>
     Snapshot(env.agents) = Snapshot(RunAfter(twin, tickCount).agents)

\* C9: an initialize that reports an error leaves the Environment with its
\* agents, the setup procedure and the tick counter as they were.
C9_FailedInitializeChangesNothing ==
  [][(lastOp' = "initialize" /\ errored') =>
        UNCHANGED <<env, setupFn, tickCount>>]_vars

\* C10: while the engine was never initialized, was cleaned up, or its last
\* initialize failed, getAgentCount() is 0 and play() and step() change no
\* state, run no tick and raise nothing.
C10_UninitializedEngineIsInert ==
  [][(lifecycle \in {"new", "cleaned", "failed"}) =>
        (/\ GetAgentCount = 0
         /\ (lastOp' \in {"play", "step"} =>
                (ticksRun' = 0 /\ threw' = FALSE /\ UNCHANGED engineState)))]_vars

\* C11: a call or frame callback that executes the behaviors of the agents
\* raises nothing to its caller, and a running engine holds a scheduled
\* frame callback when it returns.
C11_BehaviorErrorsAreSwallowed ==
  (lastOp \in {"play", "frame", "step"} /\ ~early) =>
     /\ ~threw
     /\ isRunning => animationId \in pending

\* a behavior of model m whose type is none of those the compiler knows, or
\* whose target names no agent type of m
IllFormed(m, b) ==
  \/ b.type \notin BehaviorTypes
  \/ b.params.target # NoTarget /\ FindAgentType(m, b.params.target) = 0

HasIllFormedBehavior(m) ==
  \E i \in 1..Len(m.agentTypes) :
    \E j \in 1..Len(m.agentTypes[i].behaviors) :
      IllFormed(m, m.agentTypes[i].behaviors[j])

\* C12: initializing a model that has a behavior of unknown type, or a
\* behavior whose target names no agent type, reports an error, and the
\* engine never holds a setup procedure or tick function compiled from such
\* a model.
C12_CompileRejectsIllFormedModels ==
  /\ (lastOp = "initialize" /\ HasIllFormedBehavior(model)) => errored
  /\ setupFn.set => ~HasIllFormedBehavior(setupFn.model)

\* The agent arrays, tick functions included, that compiling model m and
\* initializing a fresh engine with it can yield
AgentsOf(m) == IF m \in Models THEN {r.agents : r \in IndependentRuns[m]} ELSE {<<>>}

\* C13 as stated: a completed reset() leaves the agents and tick functions
\* of the model as the store holds it now, edits since the last initialize
\* included.
C13_ResetCreatesAgentsOfEditedModel ==
  [][(lastOp' = "reset" /\ ~early' /\ ~threw') => env'.agents \in AgentsOf(model)]_vars

\* C13 amended: a completed reset() leaves the agents and tick functions of
\* the model as it was when initialize compiled it, whatever was edited since.
C13_ResetCreatesAgentsOfInitializedModel ==
  [][(lastOp' = "reset" /\ ~early' /\ ~threw') =>
        env'.agents \in AgentsOf(setupFn.model)]_vars

\* reset() completed after the model was edited, and created agents that the
\* edited model does not yield
C13_Witness ==
  /\ lastOp = "reset" /\ ~early /\ ~threw
  /\ edits > 0 /\ model # setupFn.model
  /\ Len(env.agents) > 0
  /\ env.agents \notin AgentsOf(model)

\* C14: ticksPerFrame is never below 1; play() and every frame callback
\* that run their ticks to the end add exactly ticksPerFrame to getTick();
\* setSpeed() changes neither the tick counter nor the Environment and
\* its agents.
C14_SpeedIsTicksPerFrame ==
  [][/\ ticksPerFrame' >= 1
     /\ (lastOp' \in {"play", "frame"} /\ ~early' /\ ~threw') =>
           /\ tickCount' = tickCount + ticksPerFrame
           /\ ticksRun' = ticksPerFrame
     /\ (lastOp' = "setSpeed") => (tickCount' = tickCount /\ env' = env)]_vars

\* a frame callback ran two ticks after setSpeed(2)
C14_Witness ==
  lastOp = "frame" /\ ~early /\ ~threw /\ ticksPerFrame = 2 /\ ticksRun = 2
  /\ Len(env.agents) > 0

\* agent type t has an enabled behavior of that type whose probability is 1
\* (100 percent)
Certain(t, type) ==
  \E j \in 1..Len(t.behaviors) :
    /\ t.behaviors[j].enabled
    /\ t.behaviors[j].type = type
    /\ t.behaviors[j].params.probability.k = "num"
    /\ t.behaviors[j].params.probability.n >= 100

HasBehavior(t, type) ==
  \E j \in 1..Len(t.behaviors) : t.behaviors[j].enabled /\ t.behaviors[j].type = type

\* how many agents of the array are of agent type id
CountOfType(agents, id) == Cardinality({i \in 1..Len(agents) : agents[i].typeId = id})

\* C15: a call that executes exactly one tick removes every agent that was
\* live at its start and whose type has a die behavior of probability 1 (the
\* agents of the type it leaves are children born in that tick, which have
\* no id yet), and doubles the number of agents of a type that has a
\* reproduce behavior of probability 1 and no die behavior.
C15_CertainDeathAndBirth ==
  [][(lastOp' \in {"step", "play", "frame"} /\ ticksRun' = 1 /\ ~threw') =>
        \A ti \in 1..Len(setupFn.model.agentTypes) :
          LET t == setupFn.model.agentTypes[ti] IN
          /\ Certain(t, "die") =>
               \A i \in 1..Len(env'.agents) :
                 env'.agents[i].typeId = t.id => env'.agents[i].id = NoId
          /\ (Certain(t, "reproduce") /\ ~HasBehavior(t, "die")) =>
               CountOfType(env'.agents, t.id) = 2 * CountOfType(env.agents, t.id)]_vars

\* the ids held by the agents of the array
IdsOf(agents) == {agents[i].id : i \in 1..Len(agents)} \ {NoId}

\* the ids a call hands out: reset() gives one to every agent it creates,
\* a tick to every agent that lacks one
IdsHandedOut ==
  IF lastOp' = "reset" /\ ~early'
  THEN IdsOf(env'.agents)
  ELSE IdsOf(env'.agents) \ IdsOf(env.agents)

\* C16: between one initialize and the next, every id that step, play, a
\* frame callback, pause or reset hands out is above every id handed out
\* before, so that no id is given to two agents.
C16_IdsNeverReused ==
  [][(lastOp' \in {"step", "play", "frame", "pause", "reset"}) =>
        \A id \in IdsHandedOut : id >= issued]_vars

\* a "$name" parameter whose name the environment does not hold, replaced by
\* the default of the behavior
Defaulted(v, data, fallback) ==
  IF v.k = "ref" /\ data[v.s].k # "num" THEN fallback ELSE v

WithDefaults(agents, data) ==
  [i \in 1..Len(agents) |->
     [agents[i] EXCEPT !.tick =
        [j \in 1..Len(agents[i].tick) |->
           [agents[i].tick[j] EXCEPT
              !.params.speed = Defaulted(@, data, Num(DefaultSpeed)),
              !.params.probability = Defaulted(@, data, Num(DefaultProbability))]]]]

\* C17: a tick gives a behavior whose parameter is a reference to a name the
\* environment does not hold the effect it has with the default of that
\* parameter, and raises nothing.
C17_MissingReferenceUsesDefault ==
  [][(lifecycle = "initialized" /\ lastOp' = "step" /\ ~early') =>
        /\ ~threw'
        /\ Snapshot(env'.agents) =
             Snapshot(EngineTick(env.data,
                                 TickState(WithDefaults(env.agents, env.data), rng,
                                           agentIdCounter, tickCount, env.kdtree)).agents)]_vars

\* C18 as stated: after initializeSimulation met a model with no agent type
\* or no population, the engine is not running and getAgentCount() is 0.
C18_EmptyModelLeavesEngineEmpty ==
  (lastOp = "initializeSimulation") => (~isRunning /\ GetAgentCount = 0)

\* C18 amended: initializeSimulation on a model with no agent type or no
\* population changes nothing: an engine that was never initialized stays
\* without Environment and not running, and any other keeps its Environment,
\* its agents, its tick counter and its frame callback.
C18_EmptyModelChangesNothing ==
  [][(lastOp' = "initializeSimulation") =>
        /\ UNCHANGED engineState
        /\ (lifecycle = "new") => (~isRunning' /\ ~env'.live)]_vars

\* initializeSimulation met the empty model while a simulation with agents
\* was running
C18_Witness ==
  /\ lastOp = "initializeSimulation" /\ early
  /\ Len(model.agentTypes) = 0
  /\ isRunning /\ GetAgentCount > 0 /\ Cardinality(pending) = 1

\* C19: no call runs a behavior step on an agent that an earlier step of the
\* same tick function removed from the Environment.
C19_NoStepAfterRemoval ==
  (lastOp \in {"step", "play", "frame"}) => lateSteps = 0

\* the agent is within the bounds of the model's environment
InBounds(a, m) == 0 <= a.x /\ a.x < m.width /\ 0 <= a.y /\ a.y < m.height

\* C20: in a wraparound environment, after a call that ran ticks to the end,
\* every live agent whose type has no bounce behavior is within the bounds.
C20_AgentsStayInBounds ==
  (lastOp \in {"step", "play", "frame"} /\ ~early /\ ~threw /\ setupFn.model.wraparound) =>
     \A i \in 1..Len(env.agents) :
       LET a == env.agents[i]
           ti == FindAgentType(setupFn.model, a.typeId)
       IN (ti # 0 /\ ~HasBehavior(setupFn.model.agentTypes[ti], "bounce")) =>
             InBounds(a, setupFn.model)

\* the agents the KDTree helper of the Environment holds: the array
\* initialize gave to its constructor, which flocc's addAgent and removeAgent
\* keep to the Environment's agents; nothing when no helper was installed
SpatialIndex(e) == IF e.kdtree THEN {e.agents[i] : i \in 1..Len(e.agents)} ELSE {}

LiveAgents(e) == {e.agents[i] : i \in 1..Len(e.agents)}

\* C23: when a call or frame callback begins the behavior evaluation of a
\* tick, the spatial index exists and holds exactly the live agents.
C23_IndexHoldsLiveAgentsAtTickStart ==
  [][(lastOp' \in {"step", "play", "frame"} /\ ~early') =>
        (env.kdtree /\ SpatialIndex(env) = LiveAgents(env))]_vars

\* the types of the enabled behaviors of a list, in declaration order
RECURSIVE EnabledTypes(_)
EnabledTypes(bs) ==
  IF bs = <<>> THEN <<>>
  ELSE (IF Head(bs).enabled THEN <<Head(bs).type>> ELSE <<>>) \o EnabledTypes(Tail(bs))

\* the types of the steps a tick function runs, in the order it runs them
StepTypes(fns) == [j \in 1..Len(fns) |-> fns[j].type]

\* C24: the tick function of every live agent holds exactly one step per
\* enabled behavior of the agent's type, in declaration order.
C24_OneStepPerEnabledBehavior ==
  \A i \in 1..Len(env.agents) :
    LET ti == FindAgentType(setupFn.model, env.agents[i].typeId) IN
    ti # 0 =>
      StepTypes(env.agents[i].tick) = EnabledTypes(setupFn.model.agentTypes[ti].behaviors)

\* C25: whenever a call or frame callback has called onTick, every live
\* agent has an id and no two live agents have the same id.
C25_LiveAgentsHaveDistinctIds ==
  (notified # <<>>) =>
     /\ \A i \in 1..Len(env.agents) : env.agents[i].id # NoId
     /\ \A i, j \in 1..Len(env.agents) :
          (i # j) => env.agents[i].id # env.agents[j].id

\* C30: between calls at most one frame callback is scheduled, and one is
\* scheduled exactly when the engine is running.
C30_OneContinuationIffRunning ==
  /\ Cardinality(pending) <= 1
  /\ isRunning <=> (pending # {})

\* C27: for the positions of any two live agents, getDirection returns on
\* each axis, with wraparound on, an offset congruent to the difference
\* modulo the size and at most half the size long, and with wraparound off
\* the difference itself.
C27_DirectionIsShortestOffset ==
  \A i, j \in 1..Len(env.agents) :
    LET a == env.agents[i]
        b == env.agents[j]
        m == setupFn.model
        d == GetDirection(a.x, a.y, b.x, b.y, m.width, m.height, m.wraparound)
        \* the offset is the raw one modulo size, and at most half the size long
        ShortestOffset(o, raw, size) == (o - raw) % size = 0 /\ 2 * Abs(o) <= size
    IN IF m.wraparound
       THEN /\ ShortestOffset(d[1], b.x - a.x, m.width)
            /\ ShortestOffset(d[2], b.y - a.y, m.height)
       ELSE d = <<b.x - a.x, b.y - a.y>>

\* C28: the status of the simulation store is 'running' exactly when an
\* engine is attached to the store and that engine is running
C28_StatusRunningIffEngineRuns ==
  (status = "running") <=> (engine /\ isRunning)

\* C29: after a store action, an initialize or a frame of the attached
\* engine, the store's tick is getTick() and its agentCount getAgentCount()
C29_StoreShowsEngineCounts ==
  (engine /\ lastOp \in {"play", "pause", "step", "reset", "frame", "initialize"})
    => (storeTick = tickCount /\ agentCount = GetAgentCount)

\* the agent a after its move-forward step had the position not been wrapped
Unwrapped(a, data) ==
  LET fns == a.tick
      j == CHOOSE j \in 1..Len(fns) : fns[j].type = "move-forward"
  IN MoveForwardStep([fns[j] EXCEPT !.wraparound = FALSE], data, TRUE, a)

\* the agent's tick function moves it forward and lets it bounce
MovesAndBounces(a) ==
  /\ \E j \in 1..Len(a.tick) : a.tick[j].type = "move-forward"
  /\ \E j \in 1..Len(a.tick) : a.tick[j].type = "bounce"

\* C21: in a step of one tick, an agent of a type with move-forward and
\* bounce whose move takes it past an edge of the wrapping environment ends
\* the tick clamped to that edge with its velocity on that axis reversed; it
\* is not wrapped to the opposite edge.
C21_BounceReflectsAtEdges ==
  [][(lastOp' = "step" /\ ~early' /\ ~threw' /\ setupFn.model.wraparound
      /\ Len(env'.agents) = Len(env.agents)) =>
        \A i \in 1..Len(env.agents) :
          LET a == env.agents[i]
              b == env'.agents[i]
              m == setupFn.model
              u == IF MovesAndBounces(a) THEN Unwrapped(a, env.data) ELSE a
          IN MovesAndBounces(a) =>
               /\ (u.x < 0 \/ u.x >= m.width) =>
                    (b.x = Clamp(u.x, m.width) /\ b.vx = Num(0 - u.vx.n))
               /\ (u.y < 0 \/ u.y >= m.height) =>
                    (b.y = Clamp(u.y, m.height) /\ b.vy = Num(0 - u.vy.n))]_vars

\* C26: in a step of one tick, an agent with an on-property behavior whose
\* condition holds and whose action is set-property ends the tick with the
\* property named by setProperty holding setValue, and with the tested
\* property as it was unless it is that same property.
C26_SetPropertyWritesConfiguredProperty ==
  [][(lastOp' = "step" /\ ~early' /\ ~threw' /\ Len(env'.agents) = Len(env.agents)) =>
        \A i \in 1..Len(env.agents) :
          LET a == env.agents[i]
              b == env'.agents[i]
              \* the on-property steps of a that are set to write a property
              \* and whose condition holds for a
              FiringSetProperty ==
                {j \in 1..Len(a.tick) :
                   /\ a.tick[j].type = "on-property"
                   /\ ActionOf(a.tick[j]) = "set-property"
                   /\ OnPropertyFires(a.tick[j], a)}
          IN \A j \in FiringSetProperty :
               LET params == a.tick[j].params IN
               /\ b.props[params.setProperty] = params.setValue
               /\ (params.property # params.setProperty) =>
                    b.props[params.property] = a.props[params.property]]_vars

====
